---------------------------- MODULE Spec2Model ----------------------------
(***************************************************************************)
(* A model of the DLNA media server of this repository:                    *)
(*   - the SSDP address book, listener and notifier (src/src/ssdp.py),     *)
(*   - the start/stop choreography of __main__.py and net.with_server,     *)
(*   - the HTTP GET path of the media handler (src/src/media.py,           *)
(*     src/src/http_.py) and the object lookup of Browse/Search            *)
(*     (src/src/soap.py, src/src/didl.py).                                 *)
(*                                                                         *)
(* Spec         : the three threads of the running program (main, SSDP     *)
(*                listener, SSDP notifier) and the wall clock.             *)
(* SpecListener : the SSDP listener alone, with its handlers for NOTIFY    *)
(*                and M-SEARCH and the choice of a location for a client.  *)
(* SpecHTTP     : one HTTP request (a GET, or a POST with a SOAP body),    *)
(*                drawn from bounded sets, and its handling.               *)
(***************************************************************************)
EXTENDS Integers, Sequences, FiniteSets, TLC

(***************************************************************************)
(* Bounds of the model.                                                    *)
(***************************************************************************)
\* the longest request target, in tokens
MaxUriLen == 5
\* the longest Range header, in tokens
MaxHeaderLen == 5
\* the largest size of the media file
MaxSize == 3
\* the longest object ID, in tokens
MaxIdLen == 3
\* the longest text of StartingIndex and RequestedCount, in tokens
MaxIndexLen == 2
\* the longest SOAPACTION header, in tokens
MaxActionLen == 3
\* how many times the clock may advance
MaxTicks == 2
\* how many ALIVE bursts the notifier may send
MaxAlive == 2

(***************************************************************************)
(* Program constants.                                                      *)
(***************************************************************************)
\* ssdp.Server.timeout
timeout == 30
\* Address.timeout, the class attribute float("inf"); -1 stands for it
Inf == -1

\* Message.ALIVE, Message.BYE, Message.ALL
ALIVE == "ssdp:alive"
BYE == "ssdp:byebye"
ALL == "ssdp:all"

\* send_notifies: for _ in range(2)
Repeats == 2

\* Address.ANY
ANY == <<0, 0, 0, 0>>

\* a header that the datagram does not carry (headers[...] gives None)
None == "None"

(***************************************************************************)
(* Addresses of the model: the hosts the server may be configured with,    *)
(* the source addresses NOTIFY datagrams arrive from, and the clients that *)
(* a location is chosen for.                                               *)
(***************************************************************************)
Hosts == {ANY, <<192, 168, 1, 10>>}
Sources == {<<192, 168, 1, 10>>, <<10, 0, 0, 5>>}
\* ... and for the listener taken alone
ListenerSources == Sources \cup {<<192, 168, 1, 200>>, <<172, 16, 0, 1>>}
Clients == {<<192, 168, 1, 77>>, <<10, 0, 0, 9>>, <<172, 16, 0, 2>>,
            <<192, 168, 1, 130>>}

\* the amounts by which the clock advances: a second, and the lifetime of
\* an entry
TickSteps == {1, timeout}
\* the times at which the listener taken alone handles its datagrams
ListenerClocks == {0, timeout}

VARIABLES
    \* ---- SSDP and lifecycle (Spec) ----
    now,            \* the wall clock, in seconds (Address._now)
    ticks,          \* how often the clock advanced (bounds the model)
    host,           \* hostname of the location the SSDP server was given
    addresses,      \* Server.addresses: address -> expiry (the dict)
    main_pc,        \* __main__: position of the main thread
    http_serving,   \* the HTTP server runs its serve_forever loop
    http_open,      \* the HTTP server's socket is open (until server_close)
    srv_pc,         \* the thread running ssdp.Server.serve_forever
    srv_shutdown_request, \* BaseServer.__shutdown_request of the SSDP server
    srv_is_shut_down,     \* BaseServer.__is_shut_down of the SSDP server
    c_pc,           \* the thread running C.serve_forever (the notifier)
    c_shutdown_request,   \* C.__shutdown_request
    c_is_shut_down,       \* C.__is_shut_down
    c_phase,        \* which send_notifies call of serve_forever is running
    c_now,          \* Address.update: its local `now`
    c_pending,      \* Address.update: addresses still to be visited
    c_address,      \* Address.update: the address being visited
    c_rep,          \* send_notifies: repeats of the burst done
    log,            \* NTS of every burst repeat sent, oldest first
    burst,          \* the source addresses of the running burst, per repeat
    last_alive,     \* the source addresses of the last ALIVE burst
    last_search,    \* the last M-SEARCH handled: <<client, ST header>>
    replies,        \* the replies sent for the last M-SEARCH handled
    located,        \* the last call of location_for: <<client, location>>
    \* ---- HTTP (SpecHTTP) ----
    files,          \* the filesystem: path -> node
    request,        \* the request being handled
    http_pc,        \* "recv" until the handler ran, then "done"
    response        \* what the handler did

ssdp_vars == <<now, ticks, host, addresses, main_pc, http_serving, http_open,
               srv_pc, srv_shutdown_request, srv_is_shut_down, c_pc,
               c_shutdown_request, c_is_shut_down, c_phase, c_now, c_pending,
               c_address, c_rep, log, burst, last_alive, last_search, replies,
               located>>
http_vars == <<files, request, http_pc, response>>
vars == <<ssdp_vars, http_vars>>


(***************************************************************************)
(* The SSDP address book (class Address).                                  *)
(***************************************************************************)
\* bitwise exclusive or of two naturals (Python's ^)
RECURSIVE Xor(_, _)
Xor(a, b) ==
    IF a = 0 THEN b
    ELSE IF b = 0 THEN a
    ELSE (((a % 2) + (b % 2)) % 2) + 2 * Xor(a \div 2, b \div 2)

\* Address._pack: int.from_bytes(inet_aton(address), "big").  The packed
\* value does not fit the model checker's integers, so it is kept as its
\* four bytes, most significant first; PackedXor and PackedLeq are ^ and <=
\* of the integers these bytes denote.
Address_pack(address) == <<address[1], address[2], address[3], address[4]>>

PackedXor(p, q) == [i \in 1..4 |-> Xor(p[i], q[i])]

PackedLeq(p, q) ==
    \/ p = q
    \/ \E i \in 1..4 : p[i] < q[i] /\ \A j \in 1..(i - 1) : p[j] = q[j]

\* _now() + timeout, where timeout may be float("inf")
Expiry(t, tmo) == IF tmo = Inf THEN Inf ELSE t + tmo

\* (variant of Expired that compares the infinite expiry like a number)
Expired_finite(t, expiry) == t > expiry

\* now > self[address].timeout
Expired(t, expiry) == expiry # Inf /\ t > expiry

\* (variant of Address_iter that does not drop the sentinel)
Address_iter_keeps_any(book) == DOMAIN book

\* Address.__iter__: the keys of a copy, without ANY when another key exists
Address_iter(book) ==
    LET copy == DOMAIN book
    IN  IF ANY \in copy /\ Cardinality(copy) > 1 THEN copy \ {ANY} ELSE copy

\* Address.select: min(self, key=packed ^ _pack(address), default=ANY)
Address_select(book, address) ==
    LET packed == Address_pack(address)
        keys == Address_iter(book)
    IN  IF keys = {} THEN ANY
        ELSE CHOOSE a \in keys :
                \A b \in keys :
                    PackedLeq(PackedXor(Address_pack(a), packed),
                              PackedXor(Address_pack(b), packed))

\* Address.add: self[address] = _data(_now() + self.timeout, _pack(address))
Address_add(book, address, tmo, t) ==
    [a \in DOMAIN book \cup {address} |->
        IF a = address THEN Expiry(t, tmo) ELSE book[a]]

\* del self[address]
Address_del(book, address) ==
    [a \in DOMAIN book \ {address} |-> book[a]]

\* Address.__init__: add(address) runs before self.timeout is assigned, so
\* the first entry gets the class attribute's timeout
Address_init(address, t) ==
    Address_add(<<>>, address, Inf, t)

(***************************************************************************)
(* The SSDP server object (class Server of ssdp.py).                       *)
(***************************************************************************)
\* http_.Server.host of the SSDP server: its server_address is the
\* multicast group it is bound to
SsdpHost == "http://239.255.255.250:1900"

\* uuid.uuid5(NAMESPACE_URL, name), as text: a function of the name
Uuid5(name) == "uuid5<" \o name \o ">"

\* Server.device: self.uuid.urn[4:]
device == "uuid:" \o Uuid5(SsdpHost)

\* media.Server.services
services == {"urn:schemas-upnp-org:device:MediaServer:1",
             "urn:schemas-upnp-org:service:ContentDirectory:1",
             "urn:schemas-upnp-org:service:ConnectionManager:1"}

\* Server.targets
targets ==
    [t \in services \cup {"upnp:rootdevice", device} |->
        IF t = device THEN device ELSE device \o "::" \o t]

TargetValues == {targets[t] : t \in DOMAIN targets}

\* port of the location the SSDP server was given (the HTTP server's port)
HttpPort == "8200"

\* Server._replace_location: the device description URL with another netloc
Server_replace_location(address) ==
    <<"http", address, HttpPort, "/device-description.xml">>

\* Server.location_for
Server_location_for(book, address) ==
    Server_replace_location(Address_select(book, address))

(***************************************************************************)
(* The notifier (class C of ssdp.py).                                      *)
(***************************************************************************)
\* (variant of Notify that puts the two headers on every NOTIFY from a real
\* address)
Notify_headers_on_bye(target, type, address) ==
    [source |-> address,
     NT |-> target,
     NTS |-> type,
     USN |-> targets[target],
     CACHE_CONTROL |-> IF address # ANY
                       THEN <<"max-age", timeout>> ELSE <<>>,
     LOCATION |-> IF address # ANY
                  THEN Server_replace_location(address) ELSE <<>>]

\* C.send_notify: the NOTIFY datagram sent from `address`; an absent header
\* is the empty tuple
Notify(target, type, address) ==
    [source |-> address,
     NT |-> target,
     NTS |-> type,
     USN |-> targets[target],
     CACHE_CONTROL |-> IF type = ALIVE /\ address # ANY
                       THEN <<"max-age", timeout>> ELSE <<>>,
     LOCATION |-> IF type = ALIVE /\ address # ANY
                  THEN Server_replace_location(address) ELSE <<>>]

\* one repeat of a burst over the addresses iterated:
\* for address in addresses: for target in targets: send_notify(...)
Repeat(iterated, type) ==
    {Notify(target, type, address) :
        target \in DOMAIN targets, address \in iterated}

\* (variant of PhaseType that announces ALIVE when the notifier starts)
PhaseType_no_bye_on_start(phase) == IF phase = "final" THEN BYE ELSE ALIVE

\* the NTS of the burst a phase of serve_forever sends
PhaseType(phase) == IF phase = "loop" THEN ALIVE ELSE BYE

\* the ALIVE bursts begun so far (each burst is logged once per repeat)
AliveBursts ==
    (Cardinality({i \in 1..Len(log) : log[i] = ALIVE}) + Repeats - 1)
        \div Repeats

\* the USN headers of the NOTIFY datagrams of the model: the server's own,
\* another device's, and none
UsnHeaders == TargetValues \cup {"uuid:other::upnp:rootdevice", None}

\* the ST headers of the M-SEARCH datagrams of the model
StHeaders == {ALL, "upnp:rootdevice", device, "urn:other", None}

(***************************************************************************)
(* Initial state: both servers are constructed (__main__.py line 18 and    *)
(* the argument of with_server in line 19), no thread is started.          *)
(***************************************************************************)
HttpIdle ==
    /\ files = <<>>
    /\ request = <<>>
    /\ http_pc = "idle"
    /\ response = <<>>

Init ==
    /\ now = 0
    /\ ticks = 0
    /\ host \in Hosts
    /\ addresses = Address_init(host, 0)
    /\ main_pc = "with_server"
    /\ http_serving = FALSE
    /\ http_open = TRUE
    /\ srv_pc = "idle"
    /\ srv_shutdown_request = FALSE
    /\ srv_is_shut_down = FALSE
    /\ c_pc = "idle"
    /\ c_shutdown_request = FALSE
    /\ c_is_shut_down = FALSE
    /\ c_phase = "first"
    /\ c_now = 0
    /\ c_pending = {}
    /\ c_address = ANY
    /\ c_rep = 0
    /\ log = <<>>
    /\ burst = <<>>
    /\ last_alive = <<>>
    /\ last_search = <<>>
    /\ replies = {}
    /\ located = <<>>
    /\ HttpIdle

\* the wall clock advances
Tick ==
    /\ ticks < MaxTicks
    /\ \E d \in TickSteps : now' = now + d
    /\ ticks' = ticks + 1
    /\ UNCHANGED <<host, addresses, main_pc, http_serving, http_open, srv_pc,
                   srv_shutdown_request, srv_is_shut_down, c_pc,
                   c_shutdown_request, c_is_shut_down, c_phase, c_now,
                   c_pending, c_address, c_rep, log, burst, last_alive,
                   last_search, replies, located, http_vars>>

(***************************************************************************)
(* The main thread (__main__.py lines 18-24, net.with_server).             *)
(***************************************************************************)
main_frame ==
    UNCHANGED <<now, ticks, host, addresses, c_pc, c_shutdown_request,
                c_is_shut_down, c_phase, c_now, c_pending, c_address, c_rep,
                log, burst, last_alive, last_search, replies, located,
                http_vars>>

\* with_server enter: Thread(target=server.serve_forever).start(); yield
main_with_server ==
    /\ main_pc = "with_server"
    /\ srv_pc' = "start"
    /\ main_pc' = "serve_forever"
    /\ UNCHANGED <<http_serving, http_open, srv_shutdown_request,
                   srv_is_shut_down>>
    /\ main_frame

\* server.serve_forever() of the HTTP server begins
main_serve_forever ==
    /\ main_pc = "serve_forever"
    /\ http_serving' = TRUE
    /\ main_pc' = "serving"
    /\ UNCHANGED <<http_open, srv_pc, srv_shutdown_request, srv_is_shut_down>>
    /\ main_frame

\* KeyboardInterrupt ends the HTTP server's serve_forever; except: pass
main_keyboard_interrupt ==
    /\ main_pc = "serving"
    /\ http_serving' = FALSE
    /\ main_pc' = "shutdown"
    /\ UNCHANGED <<http_open, srv_pc, srv_shutdown_request, srv_is_shut_down>>
    /\ main_frame

\* with_server exit: server.shutdown() of the SSDP server sets the request
main_shutdown ==
    /\ main_pc = "shutdown"
    /\ srv_shutdown_request' = TRUE
    /\ main_pc' = "shutdown_wait"
    /\ UNCHANGED <<http_serving, http_open, srv_pc, srv_is_shut_down>>
    /\ main_frame

\* ... and waits for the SSDP server's serve_forever loop to end
main_shutdown_wait ==
    /\ main_pc = "shutdown_wait"
    /\ srv_is_shut_down
    /\ main_pc' = "join"
    /\ UNCHANGED <<http_serving, http_open, srv_pc, srv_shutdown_request,
                   srv_is_shut_down>>
    /\ main_frame

\* (variant of main_join that does not wait for the thread)
main_join_no_wait ==
    /\ main_pc = "join"
    /\ main_pc' = "server_close"
    /\ UNCHANGED <<http_serving, http_open, srv_pc, srv_shutdown_request,
                   srv_is_shut_down>>
    /\ main_frame

\* with_server exit: thread.join()
main_join ==
    /\ main_pc = "join"
    /\ srv_pc = "done"
    /\ main_pc' = "server_close"
    /\ UNCHANGED <<http_serving, http_open, srv_pc, srv_shutdown_request,
                   srv_is_shut_down>>
    /\ main_frame

\* leaving `with media.Server(...)`: server_close()
main_server_close ==
    /\ main_pc = "server_close"
    /\ http_open' = FALSE
    /\ main_pc' = "done"
    /\ UNCHANGED <<http_serving, srv_pc, srv_shutdown_request,
                   srv_is_shut_down>>
    /\ main_frame

(***************************************************************************)
(* The SSDP listener thread (ssdp.Server.serve_forever and the handler).   *)
(***************************************************************************)
srv_frame ==
    UNCHANGED <<now, ticks, host, main_pc, http_serving, http_open,
                c_is_shut_down, c_phase, c_now, c_pending, c_address, c_rep,
                log, burst, last_alive, http_vars>>

\* with net.with_server(self.client): the notifier thread is started
srv_with_server ==
    /\ srv_pc = "start"
    /\ c_pc' = "start"
    /\ srv_pc' = "serve_forever"
    /\ UNCHANGED <<addresses, srv_shutdown_request, srv_is_shut_down,
                   c_shutdown_request, last_search, replies, located>>
    /\ srv_frame

\* super().serve_forever() begins: __is_shut_down.clear()
srv_serve_forever ==
    /\ srv_pc = "serve_forever"
    /\ srv_is_shut_down' = FALSE
    /\ srv_pc' = "serving"
    /\ UNCHANGED <<addresses, srv_shutdown_request, c_pc, c_shutdown_request,
                   last_search, replies, located>>
    /\ srv_frame

\* (variant of do_notify that learns the source of every NOTIFY)
do_notify_any_usn(source, usn) ==
    /\ srv_pc = "serving"
    /\ addresses' = Address_add(addresses, source, timeout, now)
    /\ UNCHANGED <<srv_pc, srv_shutdown_request, srv_is_shut_down, c_pc,
                   c_shutdown_request, last_search, replies, located>>
    /\ srv_frame

\* Handler.do_notify for a NOTIFY from `source` with USN header `usn`
do_notify(source, usn) ==
    /\ srv_pc = "serving"
    /\ addresses' = IF usn \in TargetValues
                    THEN Address_add(addresses, source, timeout, now)
                    ELSE addresses
    /\ UNCHANGED <<srv_pc, srv_shutdown_request, srv_is_shut_down, c_pc,
                   c_shutdown_request, last_search, replies, located>>
    /\ srv_frame

\* Handler.send_discover: the reply for one target
Discover(target, client, book) ==
    [to |-> client,
     ST |-> target,
     USN |-> targets[target],
     LOCATION |-> Server_location_for(book, client)]

\* Handler.do_m_search for an M-SEARCH from `client` with ST header `st`:
\* the header is read and nothing is sent (the dispatch is commented out)
do_m_search(client, st) ==
    /\ srv_pc = "serving"
    /\ last_search' = <<client, st>>
    /\ replies' = {}
    /\ UNCHANGED <<addresses, srv_pc, srv_shutdown_request, srv_is_shut_down,
                   c_pc, c_shutdown_request, located>>
    /\ srv_frame

\* Server.location_for(client)
location_for(client) ==
    /\ srv_pc = "serving"
    /\ located' = <<client, Server_location_for(addresses, client)>>
    /\ UNCHANGED <<addresses, srv_pc, srv_shutdown_request, srv_is_shut_down,
                   c_pc, c_shutdown_request, last_search, replies>>
    /\ srv_frame

\* the serve_forever loop of the SSDP server sees the shutdown request and
\* ends: __shutdown_request = False; __is_shut_down.set()
srv_loop_exit ==
    /\ srv_pc = "serving"
    /\ srv_shutdown_request
    /\ srv_shutdown_request' = FALSE
    /\ srv_is_shut_down' = TRUE
    /\ srv_pc' = "client_shutdown"
    /\ UNCHANGED <<addresses, c_pc, c_shutdown_request, last_search, replies,
                   located>>
    /\ srv_frame

\* with_server exit: C.shutdown() sets the notifier's request
srv_client_shutdown ==
    /\ srv_pc = "client_shutdown"
    /\ c_shutdown_request' = TRUE
    /\ srv_pc' = "client_wait"
    /\ UNCHANGED <<addresses, srv_shutdown_request, srv_is_shut_down, c_pc,
                   last_search, replies, located>>
    /\ srv_frame

\* C.shutdown(): __is_shut_down.wait()
srv_client_wait ==
    /\ srv_pc = "client_wait"
    /\ c_is_shut_down
    /\ srv_pc' = "client_join"
    /\ UNCHANGED <<addresses, srv_shutdown_request, srv_is_shut_down, c_pc,
                   c_shutdown_request, last_search, replies, located>>
    /\ srv_frame

\* with_server exit: thread.join(); ssdp.Server.serve_forever returns
srv_client_join ==
    /\ srv_pc = "client_join"
    /\ c_pc = "done"
    /\ srv_pc' = "done"
    /\ UNCHANGED <<addresses, srv_shutdown_request, srv_is_shut_down, c_pc,
                   c_shutdown_request, last_search, replies, located>>
    /\ srv_frame

(***************************************************************************)
(* The notifier thread (C.serve_forever, C.send_notifies).                 *)
(***************************************************************************)
c_frame ==
    UNCHANGED <<now, ticks, host, main_pc, http_serving, http_open, srv_pc,
                srv_shutdown_request, srv_is_shut_down, last_search, replies,
                located, http_vars>>

\* serve_forever begins: both events are cleared, then send_notifies(BYE)
c_serve_forever ==
    /\ c_pc = "start"
    /\ c_shutdown_request' = FALSE
    /\ c_is_shut_down' = FALSE
    /\ c_phase' = "first"
    /\ c_pc' = "update"
    /\ UNCHANGED <<addresses, c_now, c_pending, c_address, c_rep, 
                   log, burst, last_alive>>
    /\ c_frame

\* send_notifies -> Address.update: now = _now(); for address in self
c_update ==
    /\ c_pc = "update"
    /\ c_now' = now
    /\ c_pending' = Address_iter(addresses)
    /\ burst' = <<>>
    /\ last_alive' = IF PhaseType(c_phase) = ALIVE THEN <<>> ELSE last_alive
    /\ c_pc' = "update_loop"
    /\ UNCHANGED <<addresses, c_shutdown_request, c_is_shut_down, c_phase,
                   c_address, c_rep, log>>
    /\ c_frame

\* (variant of c_update_check that deletes every address it comes to)
c_update_check_delete_all ==
    /\ c_pc = "update_loop"
    /\ \E a \in c_pending :
        /\ c_pending' = c_pending \ {a}
        /\ c_address' = a
        /\ c_pc' = "update_del"
    /\ UNCHANGED <<addresses, c_shutdown_request, c_is_shut_down, c_phase,
                   c_now, c_rep, log, burst, last_alive>>
    /\ c_frame

\* Address.update: the next address; if now > self[address].timeout:
c_update_check ==
    /\ c_pc = "update_loop"
    /\ \E a \in c_pending :
        /\ c_pending' = c_pending \ {a}
        /\ c_address' = a
        /\ c_pc' = IF Expired(c_now, addresses[a])
                   THEN "update_del" ELSE "update_loop"
    /\ UNCHANGED <<addresses, c_shutdown_request, c_is_shut_down, c_phase,
                   c_now, c_rep, log, burst, last_alive>>
    /\ c_frame

\* Address.update: del self[address]
c_update_del ==
    /\ c_pc = "update_del"
    /\ addresses' = Address_del(addresses, c_address)
    /\ c_pc' = "update_loop"
    /\ UNCHANGED <<c_shutdown_request, c_is_shut_down, c_phase, c_now,
                   c_pending, c_address, c_rep, log, burst, last_alive>>
    /\ c_frame

\* Address.update returns (its locals are gone); the loop
\* `for _ in range(2)` begins
c_update_done ==
    /\ c_pc = "update_loop"
    /\ c_pending = {}
    /\ c_now' = 0
    /\ c_address' = ANY
    /\ c_rep' = 0
    /\ c_pc' = "repeat"
    /\ UNCHANGED <<addresses, c_shutdown_request, c_is_shut_down, c_phase,
                   c_pending, log, burst, last_alive>>
    /\ c_frame

\* one repeat of the burst: a NOTIFY per address and target, then sleep(0.2)
c_repeat ==
    /\ c_pc = "repeat"
    /\ c_rep < Repeats
    /\ burst' = Append(burst, Address_iter(addresses))
    /\ last_alive' = IF PhaseType(c_phase) = ALIVE
                    THEN Append(last_alive, Address_iter(addresses))
                    ELSE last_alive
    /\ log' = Append(log, PhaseType(c_phase))
    /\ c_rep' = c_rep + 1
    /\ UNCHANGED <<addresses, c_pc, c_shutdown_request, c_is_shut_down,
                   c_phase, c_now, c_pending, c_address>>
    /\ c_frame

\* send_notifies(BYE) of line 156 returns: the loop sends ALIVE
c_first_done ==
    /\ c_pc = "repeat"
    /\ c_rep = Repeats
    /\ c_phase = "first"
    /\ c_phase' = "loop"
    /\ c_pc' = "update"
    /\ UNCHANGED <<addresses, c_shutdown_request, c_is_shut_down, c_now,
                   c_pending, c_address, c_rep, log, burst, last_alive>>
    /\ c_frame

\* send_notifies(ALIVE) returns: __shutdown_request.wait(timeout // 3)
c_alive_done ==
    /\ c_pc = "repeat"
    /\ c_rep = Repeats
    /\ c_phase = "loop"
    /\ c_pc' = "wait"
    /\ UNCHANGED <<addresses, c_shutdown_request, c_is_shut_down, c_phase,
                   c_now, c_pending, c_address, c_rep, log, burst, last_alive>>
    /\ c_frame

\* wait() returns False after the interval: the next ALIVE burst
c_wait_timeout ==
    /\ c_pc = "wait"
    /\ ~c_shutdown_request
    /\ AliveBursts < MaxAlive
    /\ c_pc' = "update"
    /\ UNCHANGED <<addresses, c_shutdown_request, c_is_shut_down, c_phase,
                   c_now, c_pending, c_address, c_rep, log,
                   burst, last_alive>>
    /\ c_frame

\* wait() returns True: break; send_notifies(BYE) of line 161
c_wait_shutdown ==
    /\ c_pc = "wait"
    /\ c_shutdown_request
    /\ c_phase' = "final"
    /\ c_pc' = "update"
    /\ UNCHANGED <<addresses, c_shutdown_request, c_is_shut_down, c_now,
                   c_pending, c_address, c_rep, log, burst, last_alive>>
    /\ c_frame

\* the final burst is sent: __is_shut_down.set(); serve_forever returns
c_final_done ==
    /\ c_pc = "repeat"
    /\ c_rep = Repeats
    /\ c_phase = "final"
    /\ c_is_shut_down' = TRUE
    /\ c_pc' = "done"
    /\ UNCHANGED <<addresses, c_shutdown_request, c_phase, c_now, c_pending,
                   c_address, c_rep, log, burst, last_alive>>
    /\ c_frame

(***************************************************************************)
(* The running program.                                                    *)
(***************************************************************************)
Main ==
    \/ main_with_server
    \/ main_serve_forever
    \/ main_keyboard_interrupt
    \/ main_shutdown
    \/ main_shutdown_wait
    \/ main_join
    \/ main_server_close

Listener ==
    \/ srv_with_server
    \/ srv_serve_forever
    \/ \E source \in Sources, usn \in UsnHeaders : do_notify(source, usn)
    \/ srv_loop_exit
    \/ srv_client_shutdown
    \/ srv_client_wait
    \/ srv_client_join

Notifier ==
    \/ c_serve_forever
    \/ c_update
    \/ c_update_check
    \/ c_update_del
    \/ c_update_done
    \/ c_repeat
    \/ c_first_done
    \/ c_alive_done
    \/ c_wait_timeout
    \/ c_wait_shutdown
    \/ c_final_done

Next == Tick \/ Main \/ Listener \/ Notifier

Spec == Init /\ [][Next]_vars

\* the NOTIFY datagrams of the running burst, one set per repeat
Sent == [i \in 1..Len(burst) |-> Repeat(burst[i], PhaseType(c_phase))]

(***************************************************************************)
(* The SSDP listener alone: the threads are started, the listener is in    *)
(* its serve_forever loop and handles one datagram after the other.        *)
(***************************************************************************)
InitListener ==
    /\ now \in ListenerClocks
    /\ ticks = 0
    /\ host \in Hosts
    /\ addresses = Address_init(host, 0)
    /\ main_pc = "serving"
    /\ http_serving = TRUE
    /\ http_open = TRUE
    /\ srv_pc = "serving"
    /\ srv_shutdown_request = FALSE
    /\ srv_is_shut_down = FALSE
    /\ c_pc = "start"
    /\ c_shutdown_request = FALSE
    /\ c_is_shut_down = FALSE
    /\ c_phase = "first"
    /\ c_now = 0
    /\ c_pending = {}
    /\ c_address = ANY
    /\ c_rep = 0
    /\ log = <<>>
    /\ burst = <<>>
    /\ last_alive = <<>>
    /\ last_search = <<>>
    /\ replies = {}
    /\ located = <<>>
    /\ HttpIdle

NextListener ==
    \/ \E source \in ListenerSources, usn \in UsnHeaders :
            do_notify(source, usn)
    \/ \E client \in Clients, st \in StHeaders : do_m_search(client, st)
    \/ \E client \in Clients : location_for(client)

SpecListener == InitListener /\ [][NextListener]_vars


(***************************************************************************)
(* Properties of the notifier's lifecycle (Spec).                          *)
(***************************************************************************)
\* the repeats of the final burst sent so far
FinalSent == IF c_phase = "final" /\ c_pc \in {"repeat", "done"} THEN c_rep ELSE 0

\* C1: the bursts of a run of C.serve_forever are ordered: the first burst
\* (both repeats) is ssdp:byebye and is complete before any ssdp:alive
\* burst; the final burst begins only once the stop was requested, sends
\* ssdp:byebye only, nothing follows it, and when serve_forever has
\* returned the last burst is a complete ssdp:byebye burst.
C1_LifecycleOrder ==
    /\ \A i \in 1..Len(log) :
        log[i] = IF i <= Repeats THEN BYE
                 ELSE IF i <= Len(log) - FinalSent THEN ALIVE
                 ELSE BYE
    /\ c_phase = "final" => c_shutdown_request /\ Len(log) > Repeats
    /\ c_pc = "done" => c_phase = "final" /\ FinalSent = Repeats

\* C1: a run that sent BYE, ALIVE and, after the stop request, BYE again
C1_Witness ==
    /\ c_pc = "done"
    /\ Len(log) >= 3 * Repeats
    /\ log[1] = BYE
    /\ log[Repeats + 1] = ALIVE
    /\ log[Len(log)] = BYE

\* an entry whose lifetime (timeout seconds from when it was last heard)
\* is over
Stale(a) == Expired(now, addresses[a])

\* C8 (as claimed): a non-sentinel entry that was not refreshed for more
\* than timeout seconds is absent from every iteration of the address book
\* performed after that moment; here, from every repeat of a burst.
C8_ExpiredAbsentFromIteration ==
    [][(c_pc = "repeat" /\ c_rep' = c_rep + 1) =>
        \A a \in Address_iter(addresses) \ {ANY} : ~Stale(a)]_vars

\* the listener's serve_forever loop has ended
ListenerStopped ==
    srv_pc \in {"client_shutdown", "client_wait", "client_join", "done"}

\* the main thread is past the HTTP server's serve_forever
HttpStopped ==
    main_pc \in {"shutdown", "shutdown_wait", "join", "server_close", "done"}

\* C11: when the notifier has returned, every real source address an
\* ssdp:alive NOTIFY was sent from in the last ALIVE burst has sent, in
\* every repeat of the final burst, an ssdp:byebye NOTIFY for every target.
C11_ByeForEveryAlive ==
    c_pc = "done" =>
        \A r \in 1..Len(last_alive) : \A address \in last_alive[r] \ {ANY} :
            \A i \in 1..Len(burst) : \A target \in DOMAIN targets :
                Notify(target, BYE, address) \in Sent[i]

NonSentinel(book) == DOMAIN book \ {ANY}

\* packed(a) ^ packed(c)
Distance(a, c) == PackedXor(Address_pack(a), Address_pack(c))

\* C7: for every book and every client, select returns an address of the
\* book whose packed value XOR the client's is minimal among the
\* non-sentinel entries; for a book holding only the sentinel it returns
\* 0.0.0.0; and the location chosen by location_for names an address of
\* the book.
C7_SelectClosest ==
    /\ \A c \in Clients :
        LET r == Address_select(addresses, c)
        IN  /\ NonSentinel(addresses) # {} =>
                /\ r \in NonSentinel(addresses)
                /\ \A b \in NonSentinel(addresses) :
                      PackedLeq(Distance(r, c), Distance(b, c))
            /\ DOMAIN addresses = {ANY} => r = ANY
    /\ located # <<>> =>
        \E a \in DOMAIN addresses : located[2] = Server_replace_location(a)

\* C7: with 192.168.1.10 and 10.0.0.5 known, the client 192.168.1.77 is
\* given the location on 192.168.1.10
C7_Witness ==
    /\ {<<192, 168, 1, 10>>, <<10, 0, 0, 5>>} \subseteq DOMAIN addresses
    /\ ANY \in DOMAIN addresses
    /\ located = <<<<192, 168, 1, 77>>,
                   Server_replace_location(<<192, 168, 1, 10>>)>>

\* the replies the M-SEARCH contract asks for
ExpectedReplies(client, st, book) ==
    IF st = ALL
    THEN {Discover(target, client, book) : target \in DOMAIN targets}
    ELSE IF st \in DOMAIN targets
    THEN {Discover(st, client, book)}
    ELSE {}

\* C9 (as claimed): an M-SEARCH with ST ssdp:all is answered with one reply
\* per target, one whose ST is a key of the target map with exactly one
\* reply carrying ST, USN and the closest location, any other with none.
C9_SearchReplies ==
    [][\A client \in Clients, st \in StHeaders :
        do_m_search(client, st) =>
            replies' = ExpectedReplies(client, st, addresses)]_vars



(***************************************************************************)
(* HTTP: the request target.  A request target is a sequence of tokens;    *)
(* "%2F" and "%2E%2E" are the percent-encodings of "/" and "..", every     *)
(* other token is a run of unreserved characters.                          *)
(***************************************************************************)
\* the tokens a request target is made of
UriTokens == {"/", "%2F", "..", "%2E%2E", "media", "a", "s"}

\* urllib.parse.unquote on one token
Unquote1(token) ==
    CASE token = "%2F" -> "/"
      [] token = "%2E%2E" -> ".."
      [] token = "%252F" -> "%2F"
      [] token = "%3F" -> "?"
      [] OTHER -> token

\* urllib.parse.unquote
unquote(s) == [i \in 1..Len(s) |-> Unquote1(s[i])]

\* index of the first "/" of s at or after position i, Len(s) + 1 if none
RECURSIVE NextSlash(_, _)
NextSlash(s, i) ==
    IF i > Len(s) \/ s[i] = "/" THEN i ELSE NextSlash(s, i + 1)

\* urllib.parse.urlsplit(uri).path: a target that begins with "//" carries
\* a network location up to the next "/", the path is what follows it
urlsplit_path(uri) ==
    IF Len(uri) >= 2 /\ uri[1] = "/" /\ uri[2] = "/"
    THEN SubSeq(uri, NextSlash(uri, 3), Len(uri))
    ELSE uri

\* number of "/" at the front of s
RECURSIVE LeadingSlashes(_)
LeadingSlashes(s) ==
    IF s = <<>> \/ Head(s) # "/" THEN 0 ELSE 1 + LeadingSlashes(Tail(s))

\* the segments of s: the runs between "/", empty runs dropped
RECURSIVE Segments(_, _, _)
Segments(s, i, cur) ==
    LET done == IF cur = "" THEN <<>> ELSE <<cur>>
    IN  IF i > Len(s) THEN done
        ELSE IF s[i] = "/" THEN done \o Segments(s, i + 1, "")
        ELSE Segments(s, i + 1, cur \o s[i])

\* PurePosixPath(s): exactly two leading slashes are a root of their own,
\* "." segments are dropped, ".." segments are kept
PurePosixPath(s) ==
    LET n == LeadingSlashes(s)
    IN  [root  |-> IF n = 2 THEN "//" ELSE IF n >= 1 THEN "/" ELSE "",
         parts |-> SelectSeq(Segments(s, 1, ""), LAMBDA x : x # ".")]

\* UrlPath.from_uri: PurePosixPath("/", unquote(path)); an absolute second
\* argument replaces the first
UrlPath_from_uri(uri) ==
    LET p == PurePosixPath(unquote(urlsplit_path(uri)))
    IN  IF p.root = "" THEN [root |-> "/", parts |-> p.parts] ELSE p

\* Server.paths
DEV == PurePosixPath(<<"/", "device-description.xml">>)
NET == PurePosixPath(<<"/", "connection-manager.xml">>)
SRV == PurePosixPath(<<"/", "content-directory.xml">>)
MRR == PurePosixPath(<<"/", "media-receiver-registrar.xml">>)
MEDIA == PurePosixPath(<<"/", "media", "/">>)

\* s begins with the sequence t
StartsWith(s, t) == Len(s) >= Len(t) /\ SubSeq(s, 1, Len(t)) = t

\* PurePath.is_relative_to
is_relative_to(path, other) ==
    path.root = other.root /\ StartsWith(path.parts, other.parts)

\* PurePath.relative_to, where is_relative_to holds
relative_to(path, other) ==
    SubSeq(path.parts, Len(other.parts) + 1, Len(path.parts))


(***************************************************************************)
(* HTTP: the filesystem.  A filesystem path is the sequence of its names   *)
(* from the filesystem root; `files` maps every existing path to its node. *)
(***************************************************************************)
\* server.media, the directory given by --media
MediaRoot == <<"m">>

\* the MIME type of a node is the pair of its major and its minor type
Dir == [kind |-> "dir", size |-> 0, mime |-> <<"inode", "directory">>]
File(size, mime) == [kind |-> "file", size |-> size, mime |-> mime]

\* a filesystem whose media file "a" has the given size; "s" lies outside
\* the media root, "t" is no media file
Files(size) ==
    (<<>> :> Dir) @@ (<<"s">> :> File(2, <<"text", "plain">>)) @@
    (MediaRoot :> Dir) @@
    (<<"m", "a">> :> File(size, <<"video", "mp4">>)) @@
    (<<"m", "t">> :> File(1, <<"text", "plain">>)) @@
    (<<"m", "d">> :> Dir) @@
    (<<"m", "d", "b">> :> File(1, <<"audio", "mpeg">>))

\* the bytes of a file: the byte at offset k is Content(node)[k + 1]
Content(node) == [i \in 1..node.size |-> 64 + i]

Parent(path) == IF path = <<>> THEN <<>> ELSE SubSeq(path, 1, Len(path) - 1)

\* path resolution of the operating system: ".." steps to the parent of a
\* directory that exists; <<p>> for the node reached, <<>> when there is none
RECURSIVE Resolve(_, _, _)
Resolve(fs, cur, parts) ==
    IF cur \notin DOMAIN fs THEN <<>>
    ELSE IF parts = <<>> THEN <<cur>>
    ELSE IF fs[cur].kind # "dir" THEN <<>>
    ELSE IF Head(parts) = ".." THEN Resolve(fs, Parent(cur), Tail(parts))
    ELSE Resolve(fs, Append(cur, Head(parts)), Tail(parts))

\* Path.stat: the node a path names, if any
stat(fs, path) == Resolve(fs, <<>>, path)

\* Path.is_file
is_file(fs, path) ==
    stat(fs, path) # <<>> /\ fs[stat(fs, path)[1]].kind = "file"

(***************************************************************************)
(* HTTP: the Range header, a sequence of tokens; the empty sequence is the *)
(* default of headers.get(RANGE, "") for a request without the header.     *)
(***************************************************************************)
Digit == {"0", "1", "2", "3", "4", "5", "6", "7", "8", "9"}

DigitValue(d) ==
    CASE d = "0" -> 0 [] d = "1" -> 1 [] d = "2" -> 2 [] d = "3" -> 3
      [] d = "4" -> 4 [] d = "5" -> 5 [] d = "6" -> 6 [] d = "7" -> 7
      [] d = "8" -> 8 [] d = "9" -> 9

\* int() of a non-empty string of digits
RECURSIVE int(_)
int(ds) ==
    IF Len(ds) = 1 THEN DigitValue(ds[1])
    ELSE 10 * int(SubSeq(ds, 1, Len(ds) - 1)) + DigitValue(ds[Len(ds)])

\* \d+
IsDigits(ds) == ds # <<>> /\ \A i \in 1..Len(ds) : ds[i] \in Digit

\* index of the first "-" of s at or after position i, Len(s) + 1 if none
RECURSIVE NextDash(_, _)
NextDash(s, i) ==
    IF i > Len(s) \/ s[i] = "-" THEN i ELSE NextDash(s, i + 1)

\* Range._parser.fullmatch(header).groups() for bytes=(\d+)-(\d+)?, with
\* <<>> for a group that took no part; <<>> when the header does not match
Range_parser(header) ==
    LET dash == NextDash(header, 2)
        first == SubSeq(header, 2, dash - 1)
        last == SubSeq(header, dash + 1, Len(header))
    IN  IF /\ header # <<>>
           /\ header[1] = "bytes="
           /\ dash <= Len(header)
           /\ IsDigits(first)
           /\ (last = <<>> \/ IsDigits(last))
        THEN <<first, last>>
        ELSE <<>>

\* Range.__init__
Range(fs, path, header) ==
    LET match == Range_parser(header)
        size == fs[stat(fs, path)[1]].size
    IN  [partial |-> match # <<>>,
         size    |-> size,
         start   |-> IF match # <<>> THEN int(match[1]) ELSE 0,
         end     |-> IF match # <<>> /\ match[2] # <<>> THEN int(match[2])
                     ELSE size - 1]

\* a length that leaves out the last byte of the range
Range_len_exclusive(range) == range.end - range.start

\* Range.__len__
Range_len(range) == range.end - range.start + 1


(***************************************************************************)
(* HTTP: replies.  A reply records the status line (0: none was sent),     *)
(* the Content-Length and Content-Range headers of a file reply (<<>>:     *)
(* not sent), the bytes of the file that were transferred, the nodes of    *)
(* the filesystem the request made the handler stat, the nodes it opened   *)
(* or listed, the document or template sent, the errorCode of a SOAP       *)
(* fault, the Result, TotalMatches and NumberReturned of a Browse or       *)
(* Search response, and the exception that ended the handler.              *)
(***************************************************************************)
Reply(status, touched) ==
    [status         |-> status,
     content_length |-> <<>>,
     content_range  |-> <<>>,
     body           |-> <<>>,
     touched        |-> touched,
     opened         |-> {},
     document       |-> "",
     fault          |-> <<>>,
     result         |-> <<>>,
     total_matches  |-> <<>>,
     number_returned |-> <<>>,
     raised         |-> ""]

\* BaseHTTPRequestHandler.send_error
send_error(code, touched) == Reply(code, touched)

\* an exception leaves the handler; no reply is sent
Raise(exception, touched) == [Reply(0, touched) EXCEPT !.raised = exception]

\* socket.sendfile(fp, offset, count): up to count bytes from offset on,
\* ending at the end of the file
copyfile(node, offset, count) ==
    LET last == IF offset + count < node.size THEN offset + count
                ELSE node.size
    IN  SubSeq(Content(node), offset + 1, last)

\* Handler.send_file for a file of the media root; len(range) raises
\* ValueError when Range.__len__ is negative
send_file(fs, path, range) ==
    LET node == stat(fs, path)[1]
    IN  IF Range_len(range) < 0 THEN Raise("ValueError", {node})
        ELSE IF Range_len(range) <= 0 THEN send_error(416, {node})
        ELSE [Reply(IF range.partial THEN 206 ELSE 200, {node}) EXCEPT
                !.content_length = <<Range_len(range)>>,
                !.content_range =
                    IF range.partial
                    THEN <<range.start, range.end, range.size>>
                    ELSE <<>>,
                !.opened = {node},
                !.body = copyfile(fs[node], range.start, Range_len(range))]

\* Handler.send_file / send_template for a description document
send_document(name) == [Reply(200, {}) EXCEPT !.document = name]

\* (variant of Handler_do_get that serves whatever is at the target)
Handler_do_get_any_target(fs, req) ==
    LET path == UrlPath_from_uri(req.uri)
        file == MediaRoot \o relative_to(path, MEDIA)
    IN  IF path = MRR THEN send_document("media-receiver-registrar.xml")
        ELSE IF path \in {SRV, NET}
        THEN send_document(IF path = SRV THEN "content-directory2.xml"
                           ELSE "connection-manager2.xml")
        ELSE IF path = DEV THEN send_document("device-description.xml")
        ELSE IF is_relative_to(path, MEDIA)
        THEN IF stat(fs, file) # <<>>
             THEN send_file(fs, file, Range(fs, file, req.range))
             ELSE send_error(404, {})
        ELSE send_error(400, {})

\* media.Handler.do_get on the parsed request
Handler_do_get(fs, req) ==
    LET path == UrlPath_from_uri(req.uri)
        file == MediaRoot \o relative_to(path, MEDIA)
    IN  IF path = MRR THEN send_document("media-receiver-registrar.xml")
        ELSE IF path \in {SRV, NET}
        THEN send_document(IF path = SRV THEN "content-directory2.xml"
                           ELSE "connection-manager2.xml")
        ELSE IF path = DEV THEN send_document("device-description.xml")
        ELSE IF is_relative_to(path, MEDIA)
        THEN IF is_file(fs, file)
             THEN send_file(fs, file, Range(fs, file, req.range))
             ELSE send_error(404, {stat(fs, file)[i] :
                                        i \in DOMAIN stat(fs, file)})
        ELSE send_error(400, {})

\* the handler of a GET request
do_get ==
    /\ http_pc = "recv"
    /\ request.method = "GET"
    /\ response' = Handler_do_get(files, request)
    /\ http_pc' = "done"
    /\ UNCHANGED <<request, files, ssdp_vars>>

(***************************************************************************)
(* SOAP: object IDs.  An ID is a sequence of tokens like a request target  *)
(* (without percent-encoding); a path of the filesystem as pathlib keeps   *)
(* it is the sequence of its names below the media root, ".." included.    *)
(***************************************************************************)
\* IdPath.from_id
IdPath_from_id(id) ==
    IF id = <<"0">> THEN PurePosixPath(<<"/">>) ELSE PurePosixPath(id)

\* "/".join(parts)
RECURSIVE Join(_)
Join(parts) ==
    IF Len(parts) <= 1 THEN parts
    ELSE <<Head(parts), "/">> \o Join(Tail(parts))

\* str() of a PurePosixPath
Str(path) ==
    IF path.root = "" /\ path.parts = <<>> THEN <<".">>
    ELSE (IF path.root = "//" THEN <<"/", "/">>
          ELSE IF path.root = "/" THEN <<"/">> ELSE <<>>)
         \o Join(path.parts)

\* (variant of IdPath.as_id without the ID "0" of the root)
IdPath_as_id_plain(path) == Str(path)

\* IdPath.as_id
IdPath_as_id(path) ==
    IF path = PurePosixPath(<<"/">>) THEN <<"0">> ELSE Str(path)

\* IdPath.from_path(root, path) for a path root / rel
IdPath_from_path(rel) == [root |-> "/", parts |-> rel]

\* IdPath.as_path(root): the names below the root; relative_to("/") raises
\* ValueError for a path whose root is not "/"
IdPath_as_path(path) == IF path.root = "/" THEN <<path.parts>> ELSE <<>>

\* PurePath.parent
PurePath_parent(path) ==
    [root |-> path.root, parts |-> Parent(path.parts)]

(***************************************************************************)
(* SOAP: the children of an object.                                        *)
(***************************************************************************)
\* the nodes of the filesystem strictly below a directory
Below(fs, node) ==
    {p \in DOMAIN fs : Len(p) > Len(node) /\ StartsWith(p, node)}

\* Path.glob("*") and Path.rglob("*") on root / rel: the paths found, as
\* names below the media root; nothing for a path that is no directory
Listing(fs, rel, command) ==
    LET at == stat(fs, MediaRoot \o rel)
        found ==
            IF at = <<>> \/ fs[at[1]].kind # "dir" THEN {}
            ELSE IF command = "browse"
            THEN {p \in Below(fs, at[1]) : Len(p) = Len(at[1]) + 1}
            ELSE IF command = "search" THEN Below(fs, at[1])
            ELSE {}
    IN  {rel \o SubSeq(p, Len(at[1]) + 1, Len(p)) : p \in found}

\* the orders in which a set can be enumerated
Orders(S) ==
    {order \in [1..Cardinality(S) -> S] :
        \A i, j \in 1..Cardinality(S) : order[i] = order[j] => i = j}

\* Object.mime_type
Object_mime_type(fs, rel) == fs[stat(fs, MediaRoot \o rel)[1]].mime[1]

\* Path.is_dir
is_dir(fs, path) ==
    stat(fs, path) # <<>> /\ fs[stat(fs, path)[1]].kind = "dir"

\* (variant of Object_yields without the test of __iter__)
Object_yields_everything(fs, rel) == TRUE

\* the test of Object.__iter__ on the child made from a found path: the
\* child's ID is parsed again and its path is a directory or a media file
Object_yields(fs, rel) ==
    LET child == IdPath_from_id(IdPath_as_id(IdPath_from_path(rel)))
        path == IdPath_as_path(child)[1]
    IN  \/ is_dir(fs, MediaRoot \o path)
        \/ Object_mime_type(fs, path) \in {"image", "audio", "video"}

\* Object.children: the IDs of the children, in the order of the listing
Object_children(fs, order) ==
    LET kept == SelectSeq(order, LAMBDA rel : Object_yields(fs, rel))
    IN  [i \in 1..Len(kept) |-> IdPath_as_id(IdPath_from_path(kept[i]))]

\* list[start:stop] of Python
PySlice(list, start, stop) ==
    LET n == Len(list)
        clamp(i) == IF i < 0 THEN (IF i + n < 0 THEN 0 ELSE i + n)
                    ELSE IF i > n THEN n ELSE i
    IN  SubSeq(list, clamp(start) + 1, clamp(stop))

\* int() of a text: <<n>>, or <<>> where int raises ValueError
py_int(text) ==
    LET signed == text # <<>> /\ Head(text) \in {"-", "+"}
        digits == IF signed THEN Tail(text) ELSE text
    IN  IF ~IsDigits(digits) THEN <<>>
        ELSE IF signed /\ Head(text) = "-" THEN <<0 - int(digits)>>
        ELSE <<int(digits)>>

(***************************************************************************)
(* SOAP: the handler of a POST to /content-directory.xml.  The SOAPACTION  *)
(* header is a sequence of tokens, the empty one for a request without     *)
(* the header; the body is well-formed XML or not, and each of its         *)
(* arguments is absent (<<>>) or present with a text (<<text>>).           *)
(***************************************************************************)
ContentDirectory == "urn:schemas-upnp-org:service:ContentDirectory:1"

\* net.safe_identifier on one token of the header
safe_identifier(token) ==
    CASE token = "Browse" -> "browse"
      [] token = "Search" -> "search"
      [] token = "GetSearchCapabilities" -> "getsearchcapabilities"
      [] token = "GetSortCapabilities" -> "getsortcapabilities"
      [] token = ContentDirectory ->
            "urn_schemas_upnp_org_service_contentdirectory_1"
      [] OTHER -> token

RECURSIVE Concat(_)
Concat(tokens) ==
    IF tokens = <<>> THEN "" ELSE Head(tokens) \o Concat(Tail(tokens))

\* headers.get(SOAP_ACTION, "#")
soap_action(req) == IF req.soapaction = <<>> THEN <<"#">> ELSE req.soapaction

\* where the header has a "#"
Hashes(action) == {i \in DOMAIN action : action[i] = "#"}

\* soap.Handler.parse_request: self.command, where action.split("#") gives
\* two parts
soap_command(req) ==
    LET action == soap_action(req)
        at == CHOOSE i \in Hashes(action) : TRUE
        after == SubSeq(action, at + 1, Len(action))
    IN  Concat([i \in DOMAIN after |-> safe_identifier(after[i])])

\* soap.Handler.send_error: the fault template, sent with status 500
soap_send_error(code) ==
    [Reply(500, {}) EXCEPT !.document = "fault", !.fault = <<code>>]

\* xml_.find_text for ObjectID, then ContainerID: <<id>>, or <<>> where
\* AttributeError is raised
browse_id(data) ==
    IF data.ObjectID # <<>> THEN data.ObjectID ELSE data.ContainerID

\* Object.element of the object with the given ID
Object_element(fs, id) ==
    LET id_path == IdPath_from_id(id)
        path == IdPath_as_path(id_path)[1]
        container == is_dir(fs, MediaRoot \o path)
    IN  [id       |-> IdPath_as_id(id_path),
         parentID |-> IdPath_as_id(PurePath_parent(id_path)),
         title    |-> IF path = <<>> THEN "" ELSE path[Len(path)],
         class    |-> IF container THEN "object.container"
                      ELSE "object.item." \o Object_mime_type(fs, path)
                           \o "Item",
         res      |-> ~container]

\* soap.Handler.do_browse with the listing of the object enumerated in the
\* given order
do_browse(fs, data, command, order) ==
    LET id == browse_id(data)
        id_path == IdPath_from_id(id[1])
        start == py_int(data.StartingIndex[1])
        size == py_int(data.RequestedCount[1])
        path == IdPath_as_path(id_path)
        node == stat(fs, MediaRoot \o path[1])
        all == Object_children(fs, order)
        children == PySlice(all, start[1], start[1] + size[1])
        seen == {node[i] : i \in DOMAIN node} \cup
                {stat(fs, MediaRoot \o order[i])[1] : i \in DOMAIN order}
    IN  IF id = <<>> THEN Raise("AttributeError", {})
        ELSE IF data.StartingIndex = <<>> THEN Raise("AttributeError", {})
        ELSE IF start = <<>> THEN Raise("ValueError", {})
        ELSE IF data.RequestedCount = <<>> THEN Raise("AttributeError", {})
        ELSE IF size = <<>> THEN Raise("ValueError", {})
        ELSE IF path = <<>> THEN Raise("ValueError", {})
        ELSE IF path[1] # <<>> /\ node = <<>> THEN Raise("OSError", seen)
        ELSE [Reply(200, seen) EXCEPT
                !.document = command \o "-response",
                !.opened = IF is_dir(fs, MediaRoot \o path[1])
                           THEN {node[1]} ELSE {},
                !.result = [i \in DOMAIN children |->
                                Object_element(fs, children[i])],
                !.total_matches = <<Len(all)>>,
                !.number_returned = <<Len(children)>>]

\* the paths do_browse finds for the request, if it gets that far
browse_listing(fs, req) ==
    LET id == browse_id(req.data)
        path == IdPath_as_path(IdPath_from_id(id[1]))
    IN  IF Cardinality(Hashes(soap_action(req))) # 1 \/ id = <<>>
        THEN {}
        ELSE IF path = <<>> THEN {}
        ELSE Listing(fs, path[1], soap_command(req))

\* (variant of soap_Handler whose handle() runs do_browse for a command
\* without a handler)
soap_Handler_browse_by_default(fs, req, order) ==
    IF Cardinality(Hashes(soap_action(req))) # 1
    THEN Raise("ValueError", {})
    ELSE IF ~req.data.wellformed THEN soap_send_error(402)
    ELSE IF soap_command(req) = "getsearchcapabilities"
    THEN send_document("search.xml")
    ELSE do_browse(fs, req.data, "browse", order)

\* soap.Handler.__init__: parse_request and handle
soap_Handler(fs, req, order) ==
    IF Cardinality(Hashes(soap_action(req))) # 1
    THEN Raise("ValueError", {})
    ELSE IF ~req.data.wellformed THEN soap_send_error(402)
    ELSE IF soap_command(req) \in {"browse", "search"}
    THEN do_browse(fs, req.data, soap_command(req), order)
    ELSE IF soap_command(req) = "getsearchcapabilities"
    THEN send_document("search.xml")
    ELSE soap_send_error(401)

\* media.Handler.do_post on the parsed request
Handler_do_post(fs, req, order) ==
    IF UrlPath_from_uri(req.uri) = SRV THEN soap_Handler(fs, req, order)
    ELSE send_error(400, {})

\* the handler of a POST request
do_post ==
    /\ http_pc = "recv"
    /\ request.method = "POST"
    /\ \E order \in Orders(browse_listing(files, request)) :
            response' = Handler_do_post(files, request, order)
    /\ http_pc' = "done"
    /\ UNCHANGED <<request, files, ssdp_vars>>

(***************************************************************************)
(* SpecHTTP: one request and its handling.                                 *)
(***************************************************************************)
\* all sequences over S of length at most n
BoundedSeq(S, n) == UNION {[1..k -> S] : k \in 0..n}

\* the request targets
Uris ==
    BoundedSeq(UriTokens, MaxUriLen) \cup
    {<<"/", name>> : name \in {"device-description.xml",
                               "connection-manager.xml",
                               "content-directory.xml",
                               "media-receiver-registrar.xml"}}

\* the Range headers: a unit, or none, and what follows it
RangeUnits == {<<>>, <<"bytes=">>, <<"items=">>}
RangeTokens == {"-", ",", "0", "1", "2"}
RangeHeaders ==
    {unit \o rest : unit \in RangeUnits,
                    rest \in BoundedSeq(RangeTokens, MaxHeaderLen - 1)}

\* the target of the media file "a"
FileUri == <<"/", "media", "/", "a">>

\* the target of the ContentDirectory service
SrvUri == <<"/", "content-directory.xml">>

\* the object IDs, the texts of StartingIndex and RequestedCount, and the
\* SOAPACTION headers
IdTokens == {"0", "/", "..", "a", "d"}
Ids == BoundedSeq(IdTokens, MaxIdLen)
IndexTokens == {"-", "0", "1", "2", "x"}
IndexTexts == BoundedSeq(IndexTokens, MaxIndexLen)
ActionTokens == {ContentDirectory, "#", "Browse", "Search",
                 "GetSearchCapabilities", "GetSortCapabilities"}
Actions == BoundedSeq(ActionTokens, MaxActionLen)

\* an argument of the body: absent, or present with one of the texts
Argument(texts) == {<<>>} \cup {<<text>> : text \in texts}

\* the body of a GET request, and a body that is not well-formed
NoData ==
    [wellformed |-> FALSE, ObjectID |-> <<>>, ContainerID |-> <<>>,
     StartingIndex |-> <<>>, RequestedCount |-> <<>>]

\* the GET requests for the given targets and Range headers
GetRequests(uris, ranges) ==
    [method : {"GET"}, uri : uris, range : ranges, soapaction : {<<>>},
     data : {NoData}]

\* the POST requests for the given targets, SOAPACTION headers and bodies
PostRequests(uris, actions, bodies) ==
    [method : {"POST"}, uri : uris, range : {<<>>}, soapaction : actions,
     data : bodies]

\* the SOAPACTION headers of Browse and Search
BrowseActions ==
    {<<ContentDirectory, "#", "Browse">>, <<ContentDirectory, "#", "Search">>}

\* Browse and Search for every object ID
LookupBodies ==
    [wellformed : {TRUE}, ObjectID : Argument(Ids),
     ContainerID : Argument({<<"0">>}),
     StartingIndex : {<<<<"0">>>>, <<<<"1">>>>},
     RequestedCount : {<<<<"0">>>>, <<<<"2">>>>}]

\* Browse and Search for every StartingIndex and RequestedCount
SliceBodies ==
    [wellformed : {TRUE}, ObjectID : {<<<<"0">>>>, <<<<"/", "d">>>>},
     ContainerID : {<<>>},
     StartingIndex : Argument(IndexTexts),
     RequestedCount : Argument(IndexTexts)]

\* a Browse of the root, for every target and SOAPACTION header
RootBodies ==
    {NoData,
     [wellformed |-> TRUE, ObjectID |-> <<<<"0">>>>, ContainerID |-> <<>>,
      StartingIndex |-> <<<<"0">>>>, RequestedCount |-> <<<<"2">>>>]}

InitHTTP ==
    /\ now = 0
    /\ ticks = 0
    /\ host = ANY
    /\ addresses = Address_init(host, 0)
    /\ main_pc = "serving"
    /\ http_serving = TRUE
    /\ http_open = TRUE
    /\ srv_pc = "serving"
    /\ srv_shutdown_request = FALSE
    /\ srv_is_shut_down = FALSE
    /\ c_pc = "start"
    /\ c_shutdown_request = FALSE
    /\ c_is_shut_down = FALSE
    /\ c_phase = "first"
    /\ c_now = 0
    /\ c_pending = {}
    /\ c_address = ANY
    /\ c_rep = 0
    /\ log = <<>>
    /\ burst = <<>>
    /\ last_alive = <<>>
    /\ last_search = <<>>
    /\ replies = {}
    /\ located = <<>>
    /\ \/ /\ files = Files(MaxSize)
          /\ request \in
                GetRequests(Uris, {<<>>}) \cup
                PostRequests({SrvUri}, BrowseActions,
                             LookupBodies \cup SliceBodies) \cup
                PostRequests({SrvUri, FileUri, <<"/">>}, Actions, RootBodies)
       \/ /\ files \in {Files(size) : size \in 0..MaxSize}
          /\ request \in GetRequests({FileUri}, RangeHeaders)
    /\ http_pc = "recv"
    /\ response = <<>>

NextHTTP == do_get \/ do_post

SpecHTTP == InitHTTP /\ [][NextHTTP]_vars



(***************************************************************************)
(* Properties of the media GET (SpecHTTP).                                 *)
(***************************************************************************)
\* the media file "a" and its size
MediaFile == files[<<"m", "a">>]
Size == MediaFile.size

\* a path of the filesystem is the media root or lies below it
UnderMediaRoot(p) == StartsWith(p, MediaRoot)

\* the request was answered with a file
Served == http_pc = "done" /\ response.status \in {200, 206}

\* C2: every request is rejected, or the nodes of the filesystem it makes
\* the server stat, open or list are the media root or lie below it, for
\* every GET target and every ObjectID or ContainerID of Browse and Search,
\* also with ".." segments, percent-encoded or not.
C2_NoPathEscape ==
    Served =>
        \A p \in response.touched \cup response.opened : UnderMediaRoot(p)

\* the decimal digits of a number
DigitOf(v) == CHOOSE d \in Digit : DigitValue(d) = v
RECURSIVE Dec(_)
Dec(n) ==
    IF n < 10 THEN <<DigitOf(n)>>
    ELSE Append(Dec(n \div 10), DigitOf(n % 10))

\* the headers "bytes=a-b" and "bytes=a-"
RangeHeader(a, b) == <<"bytes=">> \o Dec(a) \o <<"-">> \o Dec(b)
OpenRangeHeader(a) == <<"bytes=">> \o Dec(a) \o <<"-">>

\* the numbers a Range header of the model can carry
Numbers == 0..(10 * MaxSize)

\* the bytes of the media file at the offsets a..b
Slice(a, b) == [i \in 1..(b - a + 1) |-> Content(MediaFile)[a + i]]

\* the media file was requested and the handler has run
FileRequested == http_pc = "done" /\ request.uri = FileUri

\* C3: for a file of size S and a header bytes=a-b with 0 <= a <= b < S the
\* reply is 206 with Content-Range "bytes a-b/S" and Content-Length
\* b - a + 1, and the bytes at the offsets a..b are transferred.
C3_RangeArithmetic ==
    FileRequested =>
        \A a, b \in 0..(MaxSize - 1) :
            (a <= b /\ b < Size /\ request.range = RangeHeader(a, b)) =>
                /\ response.status = 206
                /\ response.content_range = <<a, b, Size>>
                /\ response.content_length = <<b - a + 1>>
                /\ response.body = Slice(a, b)

\* a proper part of a file of MaxSize bytes was asked for and sent
C3_Witness ==
    /\ FileRequested
    /\ Size = MaxSize
    /\ request.range = RangeHeader(1, MaxSize - 1)
    /\ response.status = 206
    /\ Len(response.body) = MaxSize - 1

\* C4: a Range header that starts at or beyond the size of the file is
\* answered 416, whatever its end is.
C4_StartBeyondSize ==
    FileRequested =>
        \A a, b \in Numbers :
            (/\ a >= Size
             /\ request.range \in {RangeHeader(a, b), OpenRangeHeader(a)})
            => response.status = 416

\* C5: a range whose length end - start + 1 is zero or negative (an end
\* before the start, or an open range that starts at or beyond the size)
\* is answered 416 without a body, and the handler completes with a reply.
C5_NonPositiveLength ==
    FileRequested =>
        \A a, b \in Numbers :
            (\/ b - a + 1 <= 0 /\ request.range = RangeHeader(a, b)
             \/ Size - a <= 0 /\ request.range = OpenRangeHeader(a))
            => /\ response.status = 416
               /\ response.body = <<>>
               /\ response.raised = ""

\* a header that lists several ranges
MultiRange(header) == \E i \in DOMAIN header : header[i] = ","

\* a header that is one range: "bytes=", digits on at least one side of
\* the one "-"
SingleRange(header) ==
    /\ Len(header) >= 3
    /\ header[1] = "bytes="
    /\ Cardinality({i \in DOMAIN header : header[i] = "-"}) = 1
    /\ \A i \in 2..Len(header) : header[i] \in Digit \cup {"-"}

\* C6: without a Range header, with a malformed one or with a list of
\* ranges the reply is 200 with Content-Length S and no Content-Range, and
\* the whole file is transferred, for every size S, zero included.
C6_FullFile ==
    (/\ FileRequested
     /\ \/ request.range = <<>>
        \/ MultiRange(request.range)
        \/ ~SingleRange(request.range))
    => /\ response.status = 200
       /\ response.content_length = <<Size>>
       /\ response.content_range = <<>>
       /\ response.body = Content(MediaFile)

\* the handler of a Browse or Search request has sent its response
Browsed ==
    /\ http_pc = "done"
    /\ request.method = "POST"
    /\ response.status = 200
    /\ response.document \in {"browse-response", "search-response"}

\* the int() of the RequestedCount argument of the request
RequestedCount == py_int(request.data.RequestedCount[1])[1]

\* the children of the requested object that pass the filter of __iter__
Filtered ==
    {rel \in browse_listing(files, request) : Object_yields(files, rel)}

\* C12: every Browse or Search response has NumberReturned <=
\* RequestedCount, NumberReturned equal to the number of child elements in
\* Result, and TotalMatches equal to the number of all filtered children.
C12_BrowseTotals ==
    Browsed =>
        /\ response.number_returned[1] <= RequestedCount
        /\ response.number_returned[1] = Len(response.result)
        /\ response.total_matches[1] = Cardinality(Filtered)

\* a Browse or Search request with an object ID and an integer window was
\* handled
BrowseHandled ==
    /\ http_pc = "done"
    /\ request.method = "POST"
    /\ UrlPath_from_uri(request.uri) = SRV
    /\ request.data.wellformed
    /\ Cardinality(Hashes(soap_action(request))) = 1
    /\ soap_command(request) \in {"browse", "search"}
    /\ browse_id(request.data) # <<>>
    /\ request.data.StartingIndex # <<>>
    /\ request.data.RequestedCount # <<>>
    /\ py_int(request.data.StartingIndex[1]) # <<>>
    /\ py_int(request.data.RequestedCount[1]) # <<>>

\* the path of the requested object: <<path>>, or <<>> where the ID has no
\* path below the media root or nothing exists at that path
ObjectPath ==
    LET path == IdPath_as_path(IdPath_from_id(browse_id(request.data)[1]))
    IN  IF path = <<>> THEN <<>> ELSE stat(files, MediaRoot \o path[1])

\* C13: a Browse or Search request whose object ID denotes no existing
\* object is answered with the SOAP fault 701 (NO_SUCH_OBJECT) and HTTP
\* status 500; it does not end without a response.
C13_NoSuchObject ==
    (BrowseHandled /\ ObjectPath = <<>>) =>
        /\ response.status = 500
        /\ response.fault = <<701>>

\* a POST to /content-directory.xml was handled
SoapHandled ==
    /\ http_pc = "done"
    /\ request.method = "POST"
    /\ UrlPath_from_uri(request.uri) = SRV

\* action.split("#") gives the two parts service and command
ActionParsed == Cardinality(Hashes(soap_action(request))) = 1

\* the response is the SOAP fault with the given errorCode, sent with 500
Fault(code) ==
    /\ response.status = 500
    /\ response.document = "fault"
    /\ response.fault = <<code>>

\* C14: a POST to /content-directory.xml whose body is not well-formed or
\* whose SOAPACTION header is not "<service>#<action>" is answered with the
\* fault 402 (INVALID_ARGS) or with HTTP 400, and a malformed body is
\* answered with the fault 402 whatever the header is.
C14_InvalidArgs ==
    /\ (SoapHandled /\ (~request.data.wellformed \/ ~ActionParsed)) =>
            (Fault(402) \/ response.status = 400)
    /\ (SoapHandled /\ ~request.data.wellformed) => Fault(402)

\* the commands for which soap.Handler has a do_<command> method
Handlers == {"browse", "search", "getsearchcapabilities"}

\* a POST to /content-directory.xml with a well-formed body and a command
\* without a handler was handled
NoHandler ==
    /\ SoapHandled
    /\ request.data.wellformed
    /\ ActionParsed
    /\ soap_command(request) \notin Handlers

\* C15: a POST to /content-directory.xml with a well-formed body whose
\* command has no do_<command> method (a missing SOAPACTION header
\* included) is answered with the fault 401 (INVALID_ACTION) and HTTP 500,
\* and no handler has run: nothing was looked up, listed or sent as result.
C15_InvalidAction ==
    NoHandler =>
        /\ Fault(401)
        /\ response.touched = {}
        /\ response.opened = {}
        /\ response.result = <<>>
        /\ response.total_matches = <<>>
        /\ response.raised = ""

\* a request without SOAPACTION header and with the arguments of a Browse
\* of the root was answered with the fault 401
C15_Witness ==
    /\ NoHandler
    /\ request.soapaction = <<>>
    /\ request.data.ObjectID = <<<<"0">>>>
    /\ Fault(401)

\* C16: a step of do_notify for a datagram whose USN header is a value of
\* the target map leaves the book with the source's entry at expiry
\* now + timeout and every other entry as it was; a step of do_notify for
\* any other datagram, one without USN header included, leaves the book
\* unchanged.
C16_NotifyFrame ==
    [][\A source \in ListenerSources, usn \in UsnHeaders :
          do_notify(source, usn) =>
              IF usn \in TargetValues
              THEN /\ DOMAIN addresses' = DOMAIN addresses \cup {source}
                   /\ addresses'[source] = now + timeout
                   /\ \A a \in DOMAIN addresses \ {source} :
                          addresses'[a] = addresses[a]
              ELSE addresses' = addresses]_vars

\* a NOTIFY with the server's USN was handled after the clock advanced: its
\* source is in the book beside another entry, with expiry now + timeout
C16_Witness ==
    /\ now > 0
    /\ \E source \in ListenerSources :
        /\ source \in DOMAIN addresses
        /\ addresses[source] = now + timeout
        /\ DOMAIN addresses # {source}

\* the paths under the media root, as names below it
MediaPaths ==
    {SubSeq(p, Len(MediaRoot) + 1, Len(p)) :
        p \in {q \in DOMAIN files : StartsWith(q, MediaRoot)}}

\* from_path(root, p).as_id() fed to from_id and then as_path(root): <<p>>
RoundTrip(rel) ==
    IdPath_as_path(IdPath_from_id(IdPath_as_id(IdPath_from_path(rel))))

\* from_id followed by as_id, as a string
Normalised(id) == Concat(IdPath_as_id(IdPath_from_id(id)))

\* the IDs of the elements of Result
ResultIds == {response.result[i].id : i \in DOMAIN response.result}

\* C17 (as claimed): every path under the media root comes back from
\* from_path, as_id, from_id, as_path; the media root has the ID "0"; and
\* from_id followed by as_id returns every ID of an existing object it is
\* given.
C17_AsClaimed ==
    /\ IdPath_as_id(IdPath_from_path(<<>>)) = <<"0">>
    /\ (BrowseHandled /\ ObjectPath # <<>>) =>
            /\ \A rel \in MediaPaths : RoundTrip(rel) = <<rel>>
            /\ Normalised(browse_id(request.data)[1])
                    = Concat(browse_id(request.data)[1])

\* C17: every path under the media root comes back from from_path, as_id,
\* from_id, as_path; the media root has the ID "0"; from_id followed by
\* as_id returns every ID that as_id produced (the IDs of Result and the
\* normalised form of the requested ID), and the IDs of distinct children
\* are distinct.
C17_IdRoundTrip ==
    /\ IdPath_as_id(IdPath_from_path(<<>>)) = <<"0">>
    /\ Browsed =>
            /\ \A rel \in MediaPaths : RoundTrip(rel) = <<rel>>
            /\ \A id \in ResultIds : Normalised(id) = Concat(id)
            /\ Cardinality(ResultIds) = Len(response.result)
            /\ \A id, other \in ResultIds :
                    IdPath_from_id(id) = IdPath_from_id(other) => id = other
    /\ BrowseHandled =>
            LET id == IdPath_as_id(IdPath_from_id(browse_id(request.data)[1]))
            IN  Normalised(id) = Concat(id)

\* a Search of the root returned the two media objects, one of them in a
\* subdirectory
C17_Witness ==
    /\ Browsed
    /\ request.data.ObjectID = <<<<"0">>>>
    /\ ResultIds = {<<"/", "a">>, <<"/", "d", "/", "b">>}
    /\ <<"d", "b">> \in MediaPaths

\* the paths of the four description documents
Documents == {DEV, NET, SRV, MRR}

\* self.path of the request handled
RequestPath == UrlPath_from_uri(request.uri)

\* the target of a GET below /media/ is missing or is no regular file
NoRegularFile ==
    LET target == stat(files, MediaRoot \o relative_to(RequestPath, MEDIA))
    IN  target = <<>> \/ files[target[1]].kind # "file"

\* C18: a GET below /media/ whose target is missing or is no regular file
\* is answered 404; a GET for a path that is neither one of the four
\* description documents nor below /media/ is answered 400; a POST to a
\* path other than /content-directory.xml is answered 400 and the SOAP
\* handler is not run.
C18_Dispatch ==
    http_pc = "done" =>
        LET path == RequestPath
        IN  /\ (/\ request.method = "GET"
                /\ is_relative_to(path, MEDIA)
                /\ NoRegularFile) =>
                    /\ response.status = 404
                    /\ response.body = <<>>
                    /\ response.opened = {}
            /\ (/\ request.method = "GET"
                /\ path \notin Documents
                /\ ~is_relative_to(path, MEDIA)) =>
                    /\ response.status = 400
                    /\ response.touched = {}
            /\ (request.method = "POST" /\ path # SRV) =>
                    /\ response.status = 400
                    /\ response.document = ""
                    /\ response.fault = <<>>
                    /\ response.touched = {}
                    /\ response.raised = ""

\* a GET for /media/, the media root and so a directory, was answered 404
C18_Witness ==
    /\ http_pc = "done"
    /\ request.method = "GET"
    /\ request.uri = <<"/", "media", "/">>
    /\ is_dir(files, MediaRoot \o relative_to(RequestPath, MEDIA))
    /\ response.status = 404

\* a filesystem entry that is a directory, or a file whose MIME major class
\* is image, audio or video
Presentable(node) ==
    \/ node.kind = "dir"
    \/ node.kind = "file" /\ node.mime[1] \in {"image", "audio", "video"}

\* the filesystem entry an object ID of a response denotes
Entry(id) ==
    files[stat(files, MediaRoot \o IdPath_as_path(IdPath_from_id(id))[1])[1]]

\* C19: every child in the Result of a Browse or Search response is a
\* directory or a file whose MIME major class is image, audio or video, and
\* TotalMatches counts exactly the entries of that kind among those found.
C19_OnlyPresentable ==
    Browsed =>
        /\ \A id \in ResultIds : Presentable(Entry(id))
        /\ \A id \in ResultIds :
                IdPath_as_path(IdPath_from_id(id))[1]
                    \in browse_listing(files, request)
        /\ response.total_matches[1] =
                Cardinality({rel \in browse_listing(files, request) :
                    Presentable(files[stat(files, MediaRoot \o rel)[1]])})

\* a Browse of the media root found three entries, among them the text
\* file t, and returned the other two
C19_Witness ==
    /\ Browsed
    /\ <<"t">> \in browse_listing(files, request)
    /\ Cardinality(browse_listing(files, request)) = 3
    /\ response.total_matches = <<2>>
    /\ Len(response.result) = 2

\* where in the filesystem the object with the given ID is
Located(id) == stat(files, MediaRoot \o IdPath_as_path(IdPath_from_id(id))[1])[1]

\* the ID of the directory that contains the entry at `node`, an entry
\* under the media root; the media root is its own parent
ContainerId(node) ==
    IF node = MediaRoot THEN <<"0">>
    ELSE IdPath_as_id(IdPath_from_path(
             SubSeq(Parent(node), Len(MediaRoot) + 1, Len(node) - 1)))

\* C20: the parent ID of the root object is "0", and the parentID of every
\* element of a response that is an entry under the media root is the ID of
\* the directory that contains the entry, "0" for the entries directly under
\* the media root.
C20_ParentId ==
    /\ (files # <<>>) => Object_element(files, <<"0">>).parentID = <<"0">>
    /\ Browsed =>
            \A i \in DOMAIN response.result :
                StartsWith(Located(response.result[i].id), MediaRoot) =>
                    response.result[i].parentID
                        = ContainerId(Located(response.result[i].id))

(***************************************************************************)
(* Properties of the bursts and of the address book.                       *)
(***************************************************************************)
\* C21: the two repeats of one burst send the same NOTIFY datagrams, one per
\* address iterated and target, also when the listener handles a NOTIFY
\* while the burst is in progress.
C21_RepeatsAlike ==
    Len(burst) = Repeats =>
        /\ Sent[1] = Sent[2]
        /\ \A i \in 1..Repeats :
              Cardinality(Sent[i])
                  = Cardinality(burst[i]) * Cardinality(DOMAIN targets)

\* the NOTIFY datagrams of the running burst
Datagrams == UNION {Sent[i] : i \in 1..Len(burst)}

\* C22: a NOTIFY of the notifier carries CACHE-CONTROL and LOCATION exactly
\* when its NTS is ssdp:alive and its source address is not 0.0.0.0; the
\* LOCATION is then the device description URL at the source address and the
\* HTTP server's port, and CACHE-CONTROL is max-age=timeout.
C22_AliveHeaders ==
    \A n \in Datagrams :
        LET alive == n.NTS = ALIVE /\ n.source # ANY
        IN  /\ n.CACHE_CONTROL # <<>> <=> alive
            /\ n.LOCATION # <<>> <=> alive
            /\ alive =>
                /\ n.LOCATION
                     = <<"http", n.source, HttpPort, "/device-description.xml">>
                /\ n.CACHE_CONTROL = <<"max-age", timeout>>

\* an ALIVE burst was sent from a real address, after the BYE burst that
\* begins the run
C22_Witness ==
    /\ c_phase = "loop"
    /\ Len(burst) = Repeats
    /\ \E n \in Datagrams : n.NTS = ALIVE /\ n.source # ANY
    /\ \E i \in 1..Len(log) : log[i] = BYE

\* iterating the book yields 0.0.0.0 exactly when 0.0.0.0 is its only entry,
\* and select, which the listener's handlers call while the listener serves,
\* returns 0.0.0.0 only when no real address is known
SentinelSuppressed ==
    /\ ANY \in Address_iter(addresses) <=> DOMAIN addresses = {ANY}
    /\ srv_pc = "serving" =>
          \A client \in Clients :
              Address_select(addresses, client) = ANY
                  => DOMAIN addresses \subseteq {ANY}

AgingOver == c_pc = "update_loop" /\ c_pending = {}

\* C24: an ALIVE burst begins only when an aging pass is over; when a pass
\* is over no entry has an expiry earlier than the time the pass read; the
\* pass picks an entry for removal only if its expiry is finite and earlier
\* than that time, and the removal takes that entry and no other out of the
\* book, so an entry of infinite expiry is never removed.
C24_Aging ==
    /\ [](AgingOver =>
            \A a \in DOMAIN addresses :
                addresses[a] = Inf \/ addresses[a] >= c_now)
    /\ [][(c_pc = "update_loop" /\ c_pc' = "update_del") =>
            /\ addresses[c_address'] # Inf
            /\ addresses[c_address'] < c_now]_vars
    /\ [][(c_pc = "update_del" /\ c_pc' # "update_del") =>
            /\ addresses[c_address] # Inf
            /\ DOMAIN addresses' = DOMAIN addresses \ {c_address}
            /\ \A a \in DOMAIN addresses' : addresses'[a] = addresses[a]]_vars
    /\ [][(c_phase = "loop" /\ c_pc # "repeat" /\ c_pc' = "repeat") =>
            AgingOver]_vars

\* an aging pass before an ALIVE burst is over: it has removed the entry it
\* came to last and has kept another real entry
C24_Witness ==
    /\ AgingOver
    /\ c_phase = "loop"
    /\ c_address # ANY
    /\ c_address \notin DOMAIN addresses
    /\ DOMAIN addresses \ {ANY, host} # {}

(***************************************************************************)
(* The running program under fair scheduling: a thread that can take a     *)
(* step eventually takes one.  Datagrams, the clock and the keyboard       *)
(* interrupt are inputs and are not forced.                                *)
(***************************************************************************)
ListenerControl ==
    \/ srv_with_server
    \/ srv_serve_forever
    \/ srv_loop_exit
    \/ srv_client_shutdown
    \/ srv_client_wait
    \/ srv_client_join

SpecFair ==
    /\ Init
    /\ [][Next]_vars
    /\ WF_vars(ListenerControl)
    /\ WF_vars(Notifier)

\* C25: a stop request, once set, stays set; and once shutdown() of the
\* notifier has set it and waits, the notifier eventually ends (after its
\* final BYE burst) and shutdown() returns.
C25_StopHonoured ==
    /\ [][c_shutdown_request => c_shutdown_request']_vars
    /\ (srv_pc = "client_wait") ~> (srv_pc = "client_join" /\ c_pc = "done")

\* C26: the del of an aging pass never takes out an entry whose expiry, at
\* the moment of the del, is not in the past.
C26_NoFreshEntryDeleted ==
    [][(c_pc = "update_del" /\ c_pc' # "update_del") =>
        /\ addresses[c_address] # Inf
        /\ addresses[c_address] < now]_vars

\* C27: the address book is never empty.
C27_NeverEmpty == DOMAIN addresses # {}

(***************************************************************************)
(* The device identity over SSDP and in the device description.            *)
(***************************************************************************)
\* http_.Server.host of a server bound to (address, port)
http_Server_host(address, port) ==
    "http://" \o ToString(address[1]) \o "." \o ToString(address[2]) \o "."
              \o ToString(address[3]) \o "." \o ToString(address[4])
              \o ":" \o port

\* the UDN that GET /device-description.xml reports when the media server
\* is bound to `address`: send_template(..., UDN=self.server.uuid.urn)
UDN(address) == "urn:uuid:" \o Uuid5(http_Server_host(address, HttpPort))

\* the UUIDs of the two servers of the program
Uuids == {Uuid5(SsdpHost), Uuid5(http_Server_host(host, HttpPort))}

\* the USNs of a device whose UUID is u
UsnsOf(u) == {"uuid:" \o u} \cup {"uuid:" \o u \o "::" \o t : t \in DOMAIN targets}

\* C28: the UUID of the USN of every NOTIFY sent, and of every value of the
\* target map, is the UUID that the device description reports as its UDN.
C28_SameUuid ==
    Datagrams # {} =>
        \E u \in Uuids :
            /\ UDN(host) = "urn:uuid:" \o u
            /\ TargetValues \subseteq UsnsOf(u)
            /\ \A n \in Datagrams : n.USN \in UsnsOf(u)

(***************************************************************************)
(* A Browse or Search while another process changes the directory: the     *)
(* children are enumerated for the slice, the directory changes, and they  *)
(* are enumerated again for the total.                                     *)
(***************************************************************************)
\* Object.__len__: the number of children a new enumeration finds
Object_len(fs, req) ==
    Cardinality({rel \in browse_listing(fs, req) : Object_yields(fs, rel)})

\* what another process can have made of the filesystem in the meantime:
\* nothing, a media file removed, a media file added
Changed(fs) ==
    {fs,
     [p \in DOMAIN fs \ {<<"m", "a">>} |-> fs[p]],
     fs @@ (<<"m", "c">> :> File(1, <<"video", "mp4">>))}

\* the handler of a POST request; `len(element)` of do_browse runs on the
\* filesystem as it is by then
do_post_racing ==
    /\ http_pc = "recv"
    /\ request.method = "POST"
    /\ \E order \in Orders(browse_listing(files, request)),
          later \in Changed(files) :
            LET reply == Handler_do_post(files, request, order)
            IN  /\ response' =
                     IF reply.total_matches = <<>> THEN reply
                     ELSE [reply EXCEPT
                            !.total_matches = <<Object_len(later, request)>>]
                /\ files' = later
    /\ http_pc' = "done"
    /\ UNCHANGED <<request, ssdp_vars>>

NextRace == do_get \/ do_post_racing

SpecRace == InitHTTP /\ [][NextRace]_vars

\* C29: in every Browse or Search response NumberReturned <= TotalMatches,
\* and every child returned is among the children that TotalMatches counts.
C29_ConsistentTotals ==
    Browsed =>
        /\ response.number_returned[1] <= response.total_matches[1]
        /\ \A id \in ResultIds :
                IdPath_as_path(IdPath_from_id(id))[1] \in Filtered

(***************************************************************************)
(* The URL of an item (the text of its res element) and the GET request    *)
(* for it.  A file name is one token here: "%2F" is the name made of the   *)
(* three characters %, 2, F, and "?" the name that is a question mark.     *)
(***************************************************************************)
\* (variant of Quote1 that leaves every name as it is)
Quote1_nothing(name) == name

\* urllib.parse.quote on one name, as PurePath.as_uri applies it: unreserved
\* characters stay, every other character becomes its percent-encoding
Quote1(name) ==
    CASE name = "%2F" -> "%252F"
      [] name = "?" -> "%3F"
      [] OTHER -> name

\* UrlPath.as_uri(uri), the path of the URL it returns: the path of `uri`
\* joined with self.relative_to("/"), percent-encoded by PurePath.as_uri
UrlPath_as_uri(path, uri) ==
    LET joined == UrlPath_from_uri(uri).parts \o path.parts
    IN  <<"/">> \o Join([i \in DOMAIN joined |-> Quote1(joined[i])])

\* Object.location for the item with the given ID; the base is
\* paths.MEDIA.as_uri(request.host) of browse_object
Object_location(id) ==
    UrlPath_as_uri(IdPath_from_id(id), UrlPath_as_uri(MEDIA, <<>>))

\* the file names, and how deep below the media root an item lies
Names == {"a", "d", "..", "%2F", "?"}
MaxDepth == 3

\* the paths of items below the media root, as Browse and Search find them
ItemPaths == BoundedSeq(Names, MaxDepth) \ {<<>>}

\* the ID __iter__ gives the item at root / rel
ItemId(rel) == IdPath_as_id(IdPath_from_path(rel))

\* a filesystem with names that need percent-encoding
NamedFiles ==
    Files(1) @@
    (<<"m", "%2F">> :> File(1, <<"video", "mp4">>)) @@
    (<<"m", "d", "?">> :> File(1, <<"audio", "mpeg">>))

\* a GET request for the URL of an item arrives
InitLocation ==
    /\ now = 0
    /\ ticks = 0
    /\ host = ANY
    /\ addresses = Address_init(host, 0)
    /\ main_pc = "serving"
    /\ http_serving = TRUE
    /\ http_open = TRUE
    /\ srv_pc = "serving"
    /\ srv_shutdown_request = FALSE
    /\ srv_is_shut_down = FALSE
    /\ c_pc = "start"
    /\ c_shutdown_request = FALSE
    /\ c_is_shut_down = FALSE
    /\ c_phase = "first"
    /\ c_now = 0
    /\ c_pending = {}
    /\ c_address = ANY
    /\ c_rep = 0
    /\ log = <<>>
    /\ burst = <<>>
    /\ last_alive = <<>>
    /\ last_search = <<>>
    /\ replies = {}
    /\ located = <<>>
    /\ files = NamedFiles
    /\ request \in GetRequests({Object_location(ItemId(rel)) : rel \in ItemPaths},
                               {<<>>})
    /\ http_pc = "recv"
    /\ response = <<>>

SpecLocation == InitLocation /\ [][do_get]_vars

\* C30: the GET request for the URL of an item is dispatched to the /media
\* branch, and the path it looks up under the media root is the path the
\* item's ID denotes; an item that is a file is answered with that file.
C30_ResUrl ==
    http_pc = "done" =>
        \A rel \in ItemPaths :
            request.uri = Object_location(ItemId(rel)) =>
                LET path == UrlPath_from_uri(request.uri)
                IN  /\ is_relative_to(path, MEDIA)
                    /\ relative_to(path, MEDIA) = rel
                    /\ IdPath_as_path(IdPath_from_id(ItemId(rel))) = <<rel>>
                    /\ response.status # 400
                    /\ is_file(files, MediaRoot \o rel) =>
                        /\ response.status = 200
                        /\ response.opened = {stat(files, MediaRoot \o rel)[1]}

\* the file named %2F of the media root was requested by the URL of its
\* item, /media/%252F, and was sent
C30_Witness ==
    /\ http_pc = "done"
    /\ request.uri = <<"/", "media", "/", "%252F">>
    /\ response.status = 200
    /\ response.opened = {<<"m", "%2F">>}

\* C31: in every file reply with status 200 or 206 the Content-Length is
\* the number of bytes of the file that are transferred, and the end offset
\* of a Content-Range is smaller than the size of the file.
C31_LengthMatchesBody ==
    (Served /\ response.content_length # <<>>) =>
        /\ response.content_length[1] = Len(response.body)
        /\ response.content_range # <<>> =>
                response.content_range[2] < response.content_range[3]

=============================================================================
